---------------------------- MODULE Spec2Model ----------------------------
(***************************************************************************)
(* A model of the Hawa game launcher daemon (src/launcher).                *)
(*                                                                         *)
(*   Spec      the launch lifecycle: one handler thread per connection     *)
(*             (main_server.py), the native and browser supervisors        *)
(*             (run_native.py, run_web.py) with their completion waiter    *)
(*             and hotkey watchdog threads (hotkeys.py).                   *)
(*   WdSpec    one running native session and its hotkey watchdog, with    *)
(*             several controllers.                                        *)
(*   WdFairSpec  the same with the watchdog thread fairly scheduled.       *)
(*   EnumSpec  yesbut.enumerate run step by step over a file tree.         *)
(*   HandleSpec  one connection from the reading of its request: the       *)
(*             checks of GameLauncherRequestHandler.handle, then the       *)
(*             launch.                                                     *)
(*   SaveSpec  saves.py: store and load between the scratch directory and  *)
(*             the durable save directory of one game, session after       *)
(*             session.                                                    *)
(*   CommitSpec  one running native session to its end on that disk: the   *)
(*             game's writes, the child's exit, the waiter's cleanup,      *)
(*             save commit and release, under fair scheduling of the       *)
(*             waiter thread.                                              *)
(*   CopySpec  saves._copy applied to the selected paths one by one, as    *)
(*             the loop of store_dragonshark_save calls it.                *)
(***************************************************************************)
EXTENDS Naturals, Sequences, FiniteSets, TLC

VARIABLES
    locked,     \* GameLauncherServer.locked
    hpc,        \* per connection: position of its handler thread
    filters,    \* per connection: the request's save_filters
    kind,       \* per connection: result of _get_executable_type
    req,        \* per connection: the request its handler reads
    resp,       \* per connection: hints of the responses sent, in order
    aborted,    \* per connection: the step at which its launch was given up
    proc,       \* per connection: the child process of its session
    httpd,      \* per connection: the static file server of a web session
    wtpc,       \* per connection: position of the completion waiter thread
    wdpc,       \* per connection: position of the watchdog thread
    pads,       \* per connection: the watchdog's dict name -> counter
    padName,    \* joystick index -> joystick.get_name()
    held,       \* history: per connection and joystick, consecutive ticks held
    loads,      \* history: per connection, calls of load_dragonshark_save
    spawns,     \* history: per connection, child processes spawned
    cleans,     \* history: per connection, runs of the gamer cleanup
    stores,     \* history: per connection, calls of store_dragonshark_save
    releases,   \* history: per connection, calls of _release
    kills,      \* history: per connection, calls of the watchdog's callback
    deadKills,  \* history: per connection, callback calls after the child ended
    fs,         \* the file tree enumerate, or the handler's checks, run on
    clauses,    \* enumerate's argument: the list of (yes, but) clauses
    ci,         \* enumerate: index of the clause being traversed
    cands,      \* enumerate: candidates of that clause not yet looked at
    seen,       \* enumerate: the set seen
    out,        \* enumerate: the paths yielded so far, in order
    disk,       \* the file tree holding the scratch, durable and staging dirs
    hist        \* history: the last save operations, each with the disk before

lifeVars == <<locked, hpc, filters, kind, req, resp, aborted, proc, httpd, wtpc, wdpc, pads,
              padName, held, loads, spawns, cleans, stores,
              releases, kills, deadKills>>

enumVars == <<fs, clauses, ci, cands, seen, out>>

saveVars == <<disk, hist>>

vars == <<lifeVars, enumVars, saveVars, req>>

-----------------------------------------------------------------------------
(* Bounds *)

\* Connections (handler threads) in one run.
MaxConn == 2

\* Clauses in one save_filters list.
MaxClauses == 2

\* Joysticks connected while a watchdog is observed on its own.
MaxPads == 2

Conns == 1 .. MaxConn

-----------------------------------------------------------------------------
(* File trees.  A path is the sequence of its components from "/"; a tree  *)
(* maps each existing path to its node.                                    *)

DirNode == [kind |-> "dir", target |-> <<>>]

FileNode == [kind |-> "file", target |-> <<>>]

LinkNode(p) == [kind |-> "link", target |-> p]

\* What a failed lookup gives (FileNotFoundError, a None): no real path.
NoPath == <<"?">>

\* saves.CURRENT_SAVE_LOCATION, the reference directory of store's enumerate
CURRENT_SAVE_LOCATION == <<"cur">>

Front(s) == SubSeq(s, 1, Len(s) - 1)

Last(s) == s[Len(s)]

IsPrefix(p, q) == Len(p) <= Len(q) /\ SubSeq(q, 1, Len(p)) = p

RECURSIVE FlattenSeq(_)
FlattenSeq(ss) ==
    IF ss = <<>> THEN <<>> ELSE Head(ss) \o FlattenSeq(Tail(ss))

SeqRange(s) == {s[i] : i \in 1 .. Len(s)}

\* The order in which a directory lists its entries.
NameOrder ==
    <<"a", "b", "sub", "d", "x", "y", "z", "f", "g", ".h",
      "lo", "lb", "ld", "lf", "s", "cur", "out">>

SortNames(S) == SelectSeq(NameOrder, LAMBDA n : n \in S)

IsHidden(n) == n = ".h"

\* Symbolic links followed in one resolution before it fails (ELOOP).
MaxLinks == 2

\* Path.resolve, os.path.realpath: follow every link, apply every "..".
RECURSIVE ResolveFrom(_, _, _, _)
ResolveFrom(t, cur, rest, fuel) ==
    IF rest = <<>> THEN cur
    ELSE IF t[cur].kind # "dir" THEN NoPath
    ELSE IF Head(rest) = ".."
        THEN ResolveFrom(t, IF cur = <<>> THEN cur ELSE Front(cur), Tail(rest), fuel)
    ELSE LET q == Append(cur, Head(rest)) IN
        IF q \notin DOMAIN t THEN NoPath
        ELSE IF t[q].kind = "link"
            THEN IF fuel = 0 THEN NoPath
                 ELSE ResolveFrom(t, <<>>, t[q].target \o Tail(rest), fuel - 1)
        ELSE ResolveFrom(t, q, Tail(rest), fuel)

Resolve(t, p) == ResolveFrom(t, <<>>, p, MaxLinks)

\* Path.exists, Path.is_dir, os.path.lexists
Exists(t, p) == Resolve(t, p) # NoPath

IsDir(t, p) == Exists(t, p) /\ t[Resolve(t, p)].kind = "dir"

LExists(t, p) ==
    \/ p = <<>>
    \/ /\ IsDir(t, Front(p))
       /\ \/ Last(p) = ".."
          \/ Append(Resolve(t, Front(p)), Last(p)) \in DOMAIN t

\* os.scandir(d): the names in directory d (nothing when d is no directory)
ListDir(t, d) ==
    IF ~IsDir(t, d) THEN {}
    ELSE LET rd == Resolve(t, d) IN
         {Last(q) : q \in {q \in DOMAIN t : Len(q) = Len(rd) + 1 /\ Front(q) = rd}}

-----------------------------------------------------------------------------
(* Patterns.  A pattern string is the sequence of its "/"-separated        *)
(* segments: "/a/**" is <<"", "a", "**">>; "*" and "**" are the wildcards. *)

IsMagic(seg) == seg \in {"*", "**"}

HasMagic(pat) == \E i \in 1 .. Len(pat) : IsMagic(pat[i])

\* str.lstrip("/"), str.rstrip("/"), str.strip("/")
RECURSIVE LStripSlash(_)
LStripSlash(pat) ==
    IF pat # <<>> /\ Head(pat) = "" THEN LStripSlash(Tail(pat)) ELSE pat

RECURSIVE RStripSlash(_)
RStripSlash(pat) ==
    IF pat # <<>> /\ Last(pat) = "" THEN RStripSlash(Front(pat)) ELSE pat

StripSlash(pat) == RStripSlash(LStripSlash(pat))

\* What pathlib keeps of a relative path string: no empty and no "." segment.
PathSegments(pat) == SelectSeq(pat, LAMBDA seg : seg \notin {"", "."})

\* glob._rlistdir: every entry below d, an entry before what is below it;
\* hidden names are skipped, directories behind links are entered.
RECURSIVE RListDir(_, _, _)
RListDir(t, d, dironly) ==
    LET names == SortNames({n \in ListDir(t, d) :
                     /\ ~IsHidden(n)
                     /\ dironly => IsDir(t, Append(d, n))})
    IN  FlattenSeq([i \in 1 .. Len(names) |->
            <<Append(d, names[i])>> \o RListDir(t, Append(d, names[i]), dironly)])

\* glob._glob0, _glob1 and _glob2: the matches of one segment in directory d
GlobInDir(t, d, basename, dironly) ==
    IF basename = "**"
        THEN (IF IsDir(t, d) THEN <<d>> ELSE <<>>) \o RListDir(t, d, dironly)
    ELSE IF basename = "*"
        THEN LET names == SortNames({n \in ListDir(t, d) :
                              /\ ~IsHidden(n)
                              /\ dironly => IsDir(t, Append(d, n))})
             IN  [i \in 1 .. Len(names) |-> Append(d, names[i])]
    ELSE IF LExists(t, Append(d, basename)) THEN <<Append(d, basename)>> ELSE <<>>

\* glob._iglob(pathname, recursive=True) for an absolute pathname
RECURSIVE IGlob(_, _, _)
IGlob(t, pat, dironly) ==
    IF ~HasMagic(pat)
        THEN (IF LExists(t, pat) THEN <<pat>> ELSE <<>>)
    ELSE LET dirname == Front(pat)
             dirs == IF HasMagic(dirname) THEN IGlob(t, dirname, TRUE)
                     ELSE <<dirname>>
         IN  FlattenSeq([i \in 1 .. Len(dirs) |->
                 GlobInDir(t, dirs[i], Last(pat), dironly)])

\* glob.translate(recursive=True, include_hidden=True) as PurePath.full_match
\* uses it: does the relative path rel match the pattern pat?  A last "**"
\* after other segments needs the "/" before it, so at least one more
\* segment; a "**" that is the whole pattern matches anything.
RECURSIVE MatchSegments(_, _, _)
MatchSegments(rel, pat, first) ==
    IF pat = <<>> THEN rel = <<>>
    ELSE IF Head(pat) = "**"
        THEN IF Len(pat) = 1 THEN first \/ rel # <<>>
             ELSE \E k \in 0 .. Len(rel) :
                    MatchSegments(SubSeq(rel, k + 1, Len(rel)), Tail(pat), FALSE)
    ELSE /\ rel # <<>>
         /\ Head(pat) = "*" \/ Head(pat) = Head(rel)
         /\ MatchSegments(Tail(rel), Tail(pat), FALSE)

FullMatch(rel, pat) == MatchSegments(rel, PathSegments(pat), TRUE)

-----------------------------------------------------------------------------
(* yesbut.py *)

\* _iter_yes_roots: the resolved matches of the yes glob that lie in the
\* reference directory, in glob's order.
IterYesRoots(t, reference_dir, yes_pattern) ==
    LET rel_glob == LStripSlash(yes_pattern)
        abs_glob == reference_dir \o PathSegments(rel_glob)
        matches  == IGlob(t, abs_glob, FALSE)
        resolved == [i \in 1 .. Len(matches) |-> Resolve(t, matches[i])]
    IN  SelectSeq(resolved, LAMBDA p : p # NoPath /\ IsPrefix(reference_dir, p))

\* os.walk(dp): the entries of dp, directories first, then the same for each
\* directory of dp that is no link.
RECURSIVE WalkDir(_, _)
WalkDir(t, dp) ==
    LET names     == ListDir(t, dp)
        dirnames  == SortNames({n \in names : IsDir(t, Append(dp, n))})
        filenames == SortNames({n \in names : ~IsDir(t, Append(dp, n))})
        entered   == SelectSeq(dirnames, LAMBDA n : t[Append(dp, n)].kind = "dir")
    IN  [i \in 1 .. Len(dirnames) |-> Append(dp, dirnames[i])]
        \o [i \in 1 .. Len(filenames) |-> Append(dp, filenames[i])]
        \o FlattenSeq([i \in 1 .. Len(entered) |-> WalkDir(t, Append(dp, entered[i]))])

\* _walk_tree_including_self
WalkTreeIncludingSelf(t, root) ==
    <<root>> \o (IF IsDir(t, root) THEN WalkDir(t, root) ELSE <<>>)

\* _posix_relpath_under: p relative to base, NoPath when p is not under base
PosixRelpathUnder(t, base, p) ==
    LET rp == Resolve(t, p)
        rb == Resolve(t, base)
    IN  IF rp # NoPath /\ rb # NoPath /\ IsPrefix(rb, rp)
        THEN SubSeq(rp, Len(rb) + 1, Len(rp))
        ELSE NoPath

\* _matches_any_but testing the pattern alone, without pat2
MatchesAnyButExact(t, reference_dir, candidate, but_patterns) ==
    LET rel == PosixRelpathUnder(t, reference_dir, candidate) IN
    /\ rel # NoPath
    /\ \E i \in 1 .. Len(but_patterns) :
          FullMatch(rel, LStripSlash(but_patterns[i]))

\* _matches_any_but
MatchesAnyBut(t, reference_dir, candidate, but_patterns) ==
    LET rel == PosixRelpathUnder(t, reference_dir, candidate) IN
    /\ rel # NoPath
    /\ \E i \in 1 .. Len(but_patterns) :
          LET pat  == LStripSlash(but_patterns[i])
              pat2 == Append(StripSlash(but_patterns[i]), "**")
          IN  FullMatch(rel, pat) \/ FullMatch(rel, pat2)

\* The candidates of one clause, in the order the two inner loops of
\* enumerate meet them.
ClauseCandidates(t, reference_dir, clause) ==
    LET roots == IterYesRoots(t, reference_dir, clause.yes) IN
    FlattenSeq([i \in 1 .. Len(roots) |-> WalkTreeIncludingSelf(t, roots[i])])

\* The innermost loop body without the test "if cand_resolved in seen".
CandidateYieldNoSeen(t, reference_dir, clause, candidate, seen_) ==
    IF ~Exists(t, candidate) THEN NoPath
    ELSE IF MatchesAnyBut(t, reference_dir, candidate, clause.but) THEN NoPath
    ELSE Resolve(t, candidate)

\* The body of enumerate's innermost loop for one candidate: the path it
\* yields, NoPath when the candidate is skipped.
CandidateYield(t, reference_dir, clause, candidate, seen_) ==
    IF ~Exists(t, candidate) THEN NoPath
    ELSE IF MatchesAnyBut(t, reference_dir, candidate, clause.but) THEN NoPath
    ELSE IF Resolve(t, candidate) \in seen_ THEN NoPath
    ELSE Resolve(t, candidate)

-----------------------------------------------------------------------------
(* The file trees and clauses the enumeration is run on. *)

\* "/", the reference directory /cur and a file /out/s outside it
BaseTree ==
    (<<>> :> DirNode) @@ (<<"cur">> :> DirNode) @@ (<<"out">> :> DirNode)
    @@ (<<"out", "s">> :> FileNode)

\* a/x, a/y, b/z
PlainTree ==
    BaseTree
    @@ (<<"cur", "a">> :> DirNode) @@ (<<"cur", "a", "x">> :> FileNode)
    @@ (<<"cur", "a", "y">> :> FileNode)
    @@ (<<"cur", "b">> :> DirNode) @@ (<<"cur", "b", "z">> :> FileNode)

\* a/x, a/.h, a/sub/f, a/sub/d/g, b/z
DeepTree ==
    BaseTree
    @@ (<<"cur", "a">> :> DirNode) @@ (<<"cur", "a", "x">> :> FileNode)
    @@ (<<"cur", "a", ".h">> :> FileNode)
    @@ (<<"cur", "a", "sub">> :> DirNode)
    @@ (<<"cur", "a", "sub", "f">> :> FileNode)
    @@ (<<"cur", "a", "sub", "d">> :> DirNode)
    @@ (<<"cur", "a", "sub", "d", "g">> :> FileNode)
    @@ (<<"cur", "b">> :> DirNode) @@ (<<"cur", "b", "z">> :> FileNode)

\* PlainTree with links under a: to a file outside, to the directory b, to
\* nothing
LinkTree ==
    PlainTree
    @@ (<<"cur", "a", "lo">> :> LinkNode(<<"out", "s">>))
    @@ (<<"cur", "a", "lb">> :> LinkNode(<<"cur", "b">>))
    @@ (<<"cur", "a", "ld">> :> LinkNode(<<"nowhere">>))

\* DeepTree with a link under a to a file of a/sub
SubLinkTree ==
    DeepTree @@ (<<"cur", "a", "lf">> :> LinkNode(<<"cur", "a", "sub", "f">>))

\* a is itself a link to the directory outside
RootLinkTree ==
    BaseTree
    @@ (<<"cur", "a">> :> LinkNode(<<"out">>))
    @@ (<<"cur", "b">> :> DirNode) @@ (<<"cur", "b", "z">> :> FileNode)

Trees == {BaseTree, PlainTree, DeepTree, LinkTree, SubLinkTree, RootLinkTree}

YesPatterns ==
    { <<"a">>, <<"a", "**">>, <<"a", "*">>, <<"**">>, <<"*">>, <<"b", "z">>,
      <<"", "a", "x">>, <<"*", "z">>, <<"..", "out", "s">>,
      <<"a", "..", "..", "out", "*">>, <<"q">> }

ButLists ==
    { <<>>, << <<"a", "y">> >>, << <<"a", "sub">> >>, << <<"", "a", "sub", "">> >>,
      << <<"a", "*">> >>, << <<"**", "z">>, <<"a", "x">> >> }

Clauses == [yes : YesPatterns, but : ButLists]

\* The clauses a list goes on with after its first one.
MoreClauses ==
    { [yes |-> <<"a">>, but |-> << <<"a", "sub">> >>],
      [yes |-> <<"a", "**">>, but |-> << <<"a", "y">> >>],
      [yes |-> <<"**">>, but |-> <<>>],
      [yes |-> <<"b", "z">>, but |-> << <<"**", "z">>, <<"a", "x">> >>] }

ClauseLists ==
    {cl \in UNION {[1 .. n -> Clauses] : n \in 1 .. MaxClauses} :
        \A i \in 2 .. Len(cl) : cl[i] \in MoreClauses}

-----------------------------------------------------------------------------
(* yesbut.enumerate as the generator runs: one clause, then its candidates *)
(* one by one.                                                             *)

EnumIdle ==
    /\ ci = 0
    /\ cands = <<>>
    /\ seen = {}
    /\ out = <<>>

EnumDone == ci = Len(clauses) /\ cands = <<>>

\* for clause in clauses: ... the yes roots and their trees are traversed
EnumClause ==
    /\ cands = <<>>
    /\ ci < Len(clauses)
    /\ ci' = ci + 1
    /\ cands' = ClauseCandidates(fs, CURRENT_SAVE_LOCATION, clauses[ci + 1])
    /\ UNCHANGED <<fs, clauses, seen, out, lifeVars, saveVars>>

\* The innermost loop body with an exclusion that sticks: a candidate
\* matching a but pattern is put in seen, so no later clause yields it.
EnumCandidateExcludedSeen ==
    /\ cands # <<>>
    /\ LET y == CandidateYield(fs, CURRENT_SAVE_LOCATION, clauses[ci], Head(cands), seen)
           excluded == /\ Exists(fs, Head(cands))
                       /\ MatchesAnyBut(fs, CURRENT_SAVE_LOCATION, Head(cands),
                                        clauses[ci].but)
       IN  /\ seen' = IF y # NoPath THEN seen \cup {y}
                      ELSE IF excluded THEN seen \cup {Resolve(fs, Head(cands))}
                      ELSE seen
           /\ out' = IF y = NoPath THEN out ELSE Append(out, y)
    /\ cands' = Tail(cands)
    /\ UNCHANGED <<fs, clauses, ci, lifeVars, saveVars>>

\* for candidate in _walk_tree_including_self(yes_root): ...
EnumCandidate ==
    /\ cands # <<>>
    /\ LET y == CandidateYield(fs, CURRENT_SAVE_LOCATION, clauses[ci], Head(cands), seen)
       IN  /\ seen' = IF y = NoPath THEN seen ELSE seen \cup {y}
           /\ out' = IF y = NoPath THEN out ELSE Append(out, y)
    /\ cands' = Tail(cands)
    /\ UNCHANGED <<fs, clauses, ci, lifeVars, saveVars>>

\* enumerate run to its end: the sequence it yields
RECURSIVE EnumerateFrom(_, _, _, _, _, _)
EnumerateFrom(t, reference_dir, cls, i, cs, seen_) ==
    IF cs # <<>>
        THEN LET y == CandidateYield(t, reference_dir, cls[i], Head(cs), seen_) IN
             IF y = NoPath
                 THEN EnumerateFrom(t, reference_dir, cls, i, Tail(cs), seen_)
                 ELSE <<y>> \o EnumerateFrom(t, reference_dir, cls, i, Tail(cs),
                                             seen_ \cup {y})
    ELSE IF i < Len(cls)
        THEN EnumerateFrom(t, reference_dir, cls, i + 1,
                           ClauseCandidates(t, reference_dir, cls[i + 1]), seen_)
    ELSE <<>>

Enumerate(t, reference_dir, cls) ==
    EnumerateFrom(t, reference_dir, cls, 0, <<>>, {})

-----------------------------------------------------------------------------
(* hotkeys.py *)

TICKS_PER_SECOND == 2

HOTKEY_HOLD_CHECK_TIME == 3 * TICKS_PER_SECOND

PadNames == {"padA", "padB"}

\* _gamepads_pressing_hotkey: the names of the joysticks holding both
\* buttons, by joystick index (a name once per such joystick).
GamepadsPressingHotkey(holding) ==
    LET idx == SelectSeq([i \in 1 .. Cardinality(DOMAIN padName) |-> i],
                         LAMBDA i : i \in holding)
    IN  [k \in 1 .. Len(idx) |-> padName[idx[k]]]

\* The loop "for holding_pad in holding_pads" of do_on_hotkey._func: the
\* dict after it, and whether it ended by calling the callback.
RECURSIVE CountHolding(_, _)
CountHolding(pd, holding_pads) ==
    IF holding_pads = <<>> THEN [pads |-> pd, hit |-> FALSE]
    ELSE LET n   == Head(holding_pads)
             v   == (IF n \in DOMAIN pd THEN pd[n] ELSE 0) + 1
             pd2 == [x \in DOMAIN pd \cup {n} |-> IF x = n THEN v ELSE pd[x]]
         IN  IF v >= HOTKEY_HOLD_CHECK_TIME THEN [pads |-> pd2, hit |-> TRUE]
             ELSE CountHolding(pd2, Tail(holding_pads))

\* "for key in keys: pads.pop(key)": the names that did not hold this tick
DropReleased(pd, holding_pads) ==
    [x \in DOMAIN pd \cap SeqRange(holding_pads) |-> pd[x]]

\* The callback: run_native's terminate is process.kill() on the session's
\* own child; run_web's terminate is "pkill chromium", every browser.
Terminate(c) ==
    IF kind[c] = "web"
        THEN [d \in Conns |-> IF kind[d] = "web" /\ proc[d] = "running"
                              THEN "killed" ELSE proc[d]]
        ELSE [proc EXCEPT ![c] = IF @ = "running" THEN "killed" ELSE @]

\* The loop of do_on_hotkey._func as "while True": check() is not asked.
WdCheckNever(c) ==
    /\ wdpc[c] = "check"
    /\ wdpc' = [wdpc EXCEPT ![c] = "tick"]
    /\ UNCHANGED <<aborted, locked, hpc, filters, kind, resp, proc, httpd, wtpc, pads,
                   padName, held, loads, spawns, cleans, stores, releases,
                   kills, deadKills, enumVars, saveVars, req>>

\* while check():
WdCheck(c) ==
    /\ wdpc[c] = "check"
    /\ wdpc' = [wdpc EXCEPT ![c] = IF proc[c] = "running" THEN "tick" ELSE "done"]
    /\ UNCHANGED <<aborted, locked, hpc, filters, kind, resp, proc, httpd, wtpc, pads,
                   padName, held, loads, spawns, cleans, stores, releases,
                   kills, deadKills, enumVars, saveVars, req>>

\* One pass of the loop body: holding_pads = _gamepads_pressing_hotkey(),
\* the counting loop, then either callback() and return, or the pops and
\* the sleep.
WdTick(c) ==
    /\ wdpc[c] = "tick"
    /\ \E holding \in SUBSET DOMAIN padName :
          LET holding_pads == GamepadsPressingHotkey(holding)
              r == CountHolding(pads[c], holding_pads)
          IN  /\ held' = [held EXCEPT ![c] =
                            [i \in DOMAIN padName |->
                                IF i \in holding THEN held[c][i] + 1 ELSE 0]]
              /\ IF r.hit
                     THEN /\ pads' = [pads EXCEPT ![c] = r.pads]
                          /\ kills' = [kills EXCEPT ![c] = @ + 1]
                          /\ deadKills' = [deadKills EXCEPT ![c] =
                                  IF proc[c] = "running" THEN @ ELSE @ + 1]
                          /\ proc' = Terminate(c)
                          /\ wdpc' = [wdpc EXCEPT ![c] = "done"]
                     ELSE /\ pads' = [pads EXCEPT ![c] =
                                         DropReleased(r.pads, holding_pads)]
                          /\ wdpc' = [wdpc EXCEPT ![c] = "check"]
                          /\ UNCHANGED <<kills, deadKills, proc>>
    /\ UNCHANGED <<aborted, locked, hpc, filters, kind, resp, httpd, wtpc, padName,
                   loads, spawns, cleans, stores, releases, enumVars, saveVars, req>>

-----------------------------------------------------------------------------
(* main_server.py, run_native.py, run_web.py *)

wdVars == <<wdpc, pads, held, kills, deadKills>>

\* No request received.
NoRequest == [payload |-> "none", directory |-> <<>>, command |-> <<>>]

FilterChoices ==
    { <<>>,
      << [yes |-> <<"a", "**">>, but |-> << <<"a", "y">> >>] >>,
      << [yes |-> <<"q">>, but |-> <<>>] >> }

NoPads == [n \in {} |-> 0]

Respond(c, hint) == [resp EXCEPT ![c] = Append(@, hint)]

\* Both supervisors, once the child runs: the waiter thread is started,
\* then do_on_hotkey starts the watchdog thread with an empty dict.
StartSession(c) ==
    /\ proc' = [proc EXCEPT ![c] = "running"]
    /\ spawns' = [spawns EXCEPT ![c] = @ + 1]
    /\ wtpc' = [wtpc EXCEPT ![c] = "wait"]
    /\ wdpc' = [wdpc EXCEPT ![c] = "check"]
    /\ pads' = [pads EXCEPT ![c] = NoPads]

\* A connection is accepted and its handler thread reads a valid request.
Accept(c) ==
    /\ hpc[c] = "idle"
    /\ \E f \in FilterChoices : filters' = [filters EXCEPT ![c] = f]
    /\ hpc' = [hpc EXCEPT ![c] = "test"]
    /\ UNCHANGED <<aborted, locked, kind, resp, proc, httpd, wtpc, wdVars, padName,
                   loads, spawns, cleans, stores, releases, enumVars, saveVars, req>>

\* _launch_executable without its "return" after the error answer.
LockTestNoReturn(c) ==
    /\ hpc[c] = "test"
    /\ IF locked
           THEN resp' = Respond(c, "command:game-already-running")
           ELSE UNCHANGED resp
    /\ hpc' = [hpc EXCEPT ![c] = "set"]
    /\ UNCHANGED <<aborted, locked, filters, kind, proc, httpd, wtpc, wdVars,
                   padName, loads, spawns, cleans, stores, releases, enumVars, saveVars, req>>

\* _launch_executable: "if self.server.locked: ... return"
LockTest(c) ==
    /\ hpc[c] = "test"
    /\ IF locked
           THEN /\ resp' = Respond(c, "command:game-already-running")
                /\ hpc' = [hpc EXCEPT ![c] = "closed"]
           ELSE /\ hpc' = [hpc EXCEPT ![c] = "set"]
                /\ UNCHANGED resp
    /\ UNCHANGED <<aborted, locked, filters, kind, proc, httpd, wtpc, wdVars, padName,
                   loads, spawns, cleans, stores, releases, enumVars, saveVars, req>>

\* _launch_executable: "self.server.locked = True"
LockSet(c) ==
    /\ hpc[c] = "set"
    /\ locked' = TRUE
    /\ hpc' = [hpc EXCEPT ![c] = "classify"]
    /\ UNCHANGED <<aborted, filters, kind, resp, proc, httpd, wtpc, wdVars, padName,
                   loads, spawns, cleans, stores, releases, enumVars, saveVars, req>>

\* _get_executable_type, called outside the try: "web", "exe", or
\* check_output raises and the exception leaves handle().
GetExecutableType(c) ==
    /\ hpc[c] = "classify"
    /\ \/ /\ kind' = [kind EXCEPT ![c] = "exe"]
          /\ hpc' = [hpc EXCEPT ![c] = "load"]
          /\ UNCHANGED aborted
       \/ /\ kind' = [kind EXCEPT ![c] = "web"]
          /\ hpc' = [hpc EXCEPT ![c] = "server"]
          /\ UNCHANGED aborted
       \/ /\ hpc' = [hpc EXCEPT ![c] = "raised"]
          /\ aborted' = [aborted EXCEPT ![c] = "classify"]
          /\ UNCHANGED kind
    /\ UNCHANGED <<locked, filters, resp, proc, httpd, wtpc, wdVars, padName,
                   loads, spawns, cleans, stores, releases, enumVars, saveVars, req>>

\* run_native.run_game: load_dragonshark_save(package, app)
LoadSave(c) ==
    /\ hpc[c] = "load"
    /\ loads' = [loads EXCEPT ![c] = @ + 1]
    /\ hpc' = [hpc EXCEPT ![c] = "ensure"]
    /\ UNCHANGED <<aborted, locked, filters, kind, resp, proc, httpd, wtpc, wdVars,
                   padName, spawns, cleans, stores, releases, enumVars, saveVars, req>>

\* run_native.run_game: ensure_executable(path); "if not success: return"
EnsureExecutable(c) ==
    /\ hpc[c] = "ensure"
    /\ \/ /\ hpc' = [hpc EXCEPT ![c] = "env"]
          /\ UNCHANGED aborted
       \/ /\ hpc' = [hpc EXCEPT ![c] = "closed"]
          /\ aborted' = [aborted EXCEPT ![c] = "ensure"]
    /\ UNCHANGED <<locked, filters, kind, resp, proc, httpd, wtpc, wdVars,
                   padName, loads, spawns, cleans, stores, releases, enumVars, saveVars, req>>

\* run_native.run_game: get_env_for_user("pi"), which raises RuntimeError
\* when it finds no X session; _launch_executable catches it.
GetEnvForUser(c) ==
    /\ hpc[c] = "env"
    /\ \/ /\ hpc' = [hpc EXCEPT ![c] = "spawn"]
          /\ UNCHANGED <<resp, aborted>>
       \/ /\ resp' = Respond(c, "unknown")
          /\ hpc' = [hpc EXCEPT ![c] = "closed"]
          /\ aborted' = [aborted EXCEPT ![c] = "env"]
    /\ UNCHANGED <<locked, filters, kind, proc, httpd, wtpc, wdVars, padName,
                   loads, spawns, cleans, stores, releases, enumVars, saveVars, req>>

\* run_native.run_game: subprocess.Popen, then the two threads; or Popen
\* raises and _launch_executable catches it.
SpawnNative(c) ==
    /\ hpc[c] = "spawn"
    /\ \/ /\ StartSession(c)
          /\ hpc' = [hpc EXCEPT ![c] = "closed"]
          /\ UNCHANGED <<resp, aborted>>
       \/ /\ resp' = Respond(c, "unknown")
          /\ hpc' = [hpc EXCEPT ![c] = "closed"]
          /\ aborted' = [aborted EXCEPT ![c] = "spawn"]
          /\ UNCHANGED <<proc, spawns, wtpc, wdpc, pads>>
    /\ UNCHANGED <<locked, filters, kind, httpd, padName, held, kills,
                   deadKills, loads, cleans, stores, releases, enumVars, saveVars, req>>

\* run_web.run_game: _start_http_server and _prepare_save_size_preference;
\* either may raise (port 8888 taken, preferences not writable).
StartHttpServer(c) ==
    /\ hpc[c] = "server"
    /\ \/ /\ httpd' = [httpd EXCEPT ![c] = "up"]
          /\ hpc' = [hpc EXCEPT ![c] = "browser"]
          /\ UNCHANGED <<resp, aborted>>
       \/ /\ resp' = Respond(c, "unknown")
          /\ hpc' = [hpc EXCEPT ![c] = "closed"]
          /\ aborted' = [aborted EXCEPT ![c] = "server"]
          /\ UNCHANGED httpd
    /\ UNCHANGED <<locked, filters, kind, proc, wtpc, wdVars, padName,
                   loads, spawns, cleans, stores, releases, enumVars, saveVars, req>>

\* run_web.run_game: _run_browser, then the two threads
RunBrowser(c) ==
    /\ hpc[c] = "browser"
    /\ StartSession(c)
    /\ hpc' = [hpc EXCEPT ![c] = "closed"]
    /\ UNCHANGED <<aborted, locked, filters, kind, resp, httpd, padName, held, kills,
                   deadKills, loads, cleans, stores, releases, enumVars, saveVars, req>>

\* The child process ends by itself.
ProcExit(c) ==
    /\ proc[c] = "running"
    /\ proc' = [proc EXCEPT ![c] = "exited"]
    /\ UNCHANGED <<aborted, locked, hpc, filters, kind, resp, httpd, wtpc, wdVars,
                   padName, loads, spawns, cleans, stores, releases, enumVars, saveVars, req>>

\* _func of either supervisor: process.wait() returns
WaiterWait(c) ==
    /\ wtpc[c] = "wait"
    /\ proc[c] # "running"
    /\ wtpc' = [wtpc EXCEPT ![c] = IF kind[c] = "web" THEN "shutdown" ELSE "clean"]
    /\ UNCHANGED <<aborted, locked, hpc, filters, kind, resp, proc, httpd, wdVars,
                   padName, loads, spawns, cleans, stores, releases, enumVars, saveVars, req>>

\* run_native _func: crontab -r, atrm, "pkill -9 -u gamer": every process of
\* the gamer account, so the child of any native session
WaiterClean(c) ==
    /\ wtpc[c] = "clean"
    /\ cleans' = [cleans EXCEPT ![c] = @ + 1]
    /\ proc' = [d \in Conns |-> IF kind[d] = "exe" /\ proc[d] = "running"
                                THEN "killed" ELSE proc[d]]
    /\ wtpc' = [wtpc EXCEPT ![c] = "store"]
    /\ UNCHANGED <<aborted, locked, hpc, filters, kind, resp, httpd, wdVars, padName,
                   loads, spawns, stores, releases, enumVars, saveVars, req>>

\* store_dragonshark_save as the waiter sees it: it returns, or the loop
\* over enumerate raises TypeError at its first element, a Path it slices
\* as "element[len(CURRENT_SAVE_LOCATION)+1:]", and the thread dies.
\* What the scratch directory may hold when a game has ended.
ScratchTrees == {BaseTree, PlainTree}

StoreRaises(t, save_filters) ==
    Enumerate(t, CURRENT_SAVE_LOCATION, save_filters) # <<>>

WaiterStore(c) ==
    /\ wtpc[c] = "store"
    /\ stores' = [stores EXCEPT ![c] = @ + 1]
    /\ \E t \in ScratchTrees :
          wtpc' = [wtpc EXCEPT ![c] =
                      IF StoreRaises(t, filters[c]) THEN "raised" ELSE "release"]
    /\ UNCHANGED <<aborted, locked, hpc, filters, kind, resp, proc, httpd, wdVars,
                   padName, loads, spawns, cleans, releases, enumVars, saveVars, req>>

\* run_web _func going on to on_end() without web_server.shutdown()
WaiterNoShutdown(c) ==
    /\ wtpc[c] = "shutdown"
    /\ wtpc' = [wtpc EXCEPT ![c] = "release"]
    /\ UNCHANGED <<aborted, locked, hpc, filters, kind, resp, proc, httpd, wdVars,
                   padName, loads, spawns, cleans, stores, releases, enumVars, saveVars, req>>

\* run_web _func: web_server.shutdown()
WaiterShutdown(c) ==
    /\ wtpc[c] = "shutdown"
    /\ httpd' = [httpd EXCEPT ![c] = "down"]
    /\ wtpc' = [wtpc EXCEPT ![c] = "release"]
    /\ UNCHANGED <<aborted, locked, hpc, filters, kind, resp, proc, wdVars, padName,
                   loads, spawns, cleans, stores, releases, enumVars, saveVars, req>>

\* on_end(): _release sets self.server.locked = False
WaiterRelease(c) ==
    /\ wtpc[c] = "release"
    /\ locked' = FALSE
    /\ releases' = [releases EXCEPT ![c] = @ + 1]
    /\ wtpc' = [wtpc EXCEPT ![c] = "done"]
    /\ UNCHANGED <<aborted, hpc, filters, kind, resp, proc, httpd, wdVars, padName,
                   loads, spawns, cleans, stores, enumVars, saveVars, req>>

-----------------------------------------------------------------------------
(* main_server.py: GameLauncherRequestHandler.handle.  A directory is the  *)
(* sequence of the components of its absolute path; a command is the       *)
(* sequence of its components, the first one "" when it starts with "/".   *)

\* os.path.realpath: links followed and ".." applied as far as the path
\* exists, the rest kept as written.
RECURSIVE RealFrom(_, _, _, _)
RealFrom(t, cur, rest, fuel) ==
    IF rest = <<>> THEN cur
    ELSE IF Head(rest) \in {"", "."} THEN RealFrom(t, cur, Tail(rest), fuel)
    ELSE IF Head(rest) = ".."
        THEN RealFrom(t, IF cur = <<>> THEN cur ELSE Front(cur), Tail(rest), fuel)
    ELSE LET q == Append(cur, Head(rest)) IN
        IF q \in DOMAIN t /\ t[q].kind = "link" /\ fuel > 0
            THEN RealFrom(t, <<>>, t[q].target \o Tail(rest), fuel - 1)
            ELSE RealFrom(t, q, Tail(rest), fuel)

RealPath(t, p) == RealFrom(t, <<>>, p, MaxLinks)

\* os.path.join(directory, command)
JoinPath(directory, command) ==
    IF command # <<>> /\ Head(command) = "" THEN command ELSE directory \o command

\* The containment check answering yes to everything.
StartsWithAnything(real_directory_path, real_command_path) == TRUE

\* real_command_path.startswith(real_directory_path.rstrip("/") + "/"):
\* for the directory "/" the prefix is "/", which starts every path.
StartsWithDirectory(real_directory_path, real_command_path) ==
    IF real_directory_path = <<>> THEN TRUE
    ELSE /\ IsPrefix(real_directory_path, real_command_path)
         /\ real_command_path # real_directory_path

\* os.path.isfile
IsFile(t, p) == Exists(t, p) /\ t[Resolve(t, p)].kind = "file"

\* The file tree the requests are checked against: a game directory /g
\* with a link /l to it, /etc/passwd, and in /g a link out to /etc/passwd
\* and a link in to /g/run.
HandleTree ==
    (<<>> :> DirNode) @@ (<<"etc">> :> DirNode)
    @@ (<<"etc", "passwd">> :> FileNode)
    @@ (<<"g">> :> DirNode) @@ (<<"g", "run">> :> FileNode)
    @@ (<<"g", "sub">> :> DirNode) @@ (<<"g", "sub", "run">> :> FileNode)
    @@ (<<"g", "out">> :> LinkNode(<<"etc", "passwd">>))
    @@ (<<"g", "in">> :> LinkNode(<<"g", "run">>))
    @@ (<<"l">> :> LinkNode(<<"g">>))

\* The same without /etc.
BareTree ==
    (<<>> :> DirNode)
    @@ (<<"g">> :> DirNode) @@ (<<"g", "run">> :> FileNode)
    @@ (<<"g", "sub">> :> DirNode) @@ (<<"g", "sub", "run">> :> FileNode)
    @@ (<<"g", "in">> :> LinkNode(<<"g", "run">>))
    @@ (<<"l">> :> LinkNode(<<"g">>))

HandleTrees == {HandleTree, BareTree}

Directories ==
    { <<>>, <<"g">>, <<"g", "sub">>, <<"l">>, <<"nope">>, <<"g", "run">> }

Commands ==
    { <<"run">>, <<"sub", "run">>, <<"sub", "..", "run">>,
      <<"..", "..", "etc", "passwd">>, <<"..", "etc", "passwd">>,
      <<"", "etc", "passwd">>, <<"out">>, <<"in">>, <<".">>, <<"sub">>,
      <<"nothere">>, <<"etc", "passwd">> }

\* The payloads: a well-formed request; a line that is no JSON; an object
\* lacking a field; one with a blank field; and a JSON value of another
\* shape (no object, or a field that is no string).
Requests ==
    [payload : {"ok"}, directory : Directories, command : Commands]
    \cup [payload : {"notjson", "missing", "blank", "wrongtype"},
          directory : {<<>>}, command : {<<>>}]

\* handle: _recv_command and the strip() of the fields.  KeyError and
\* ValueError are caught and answered; the TypeError or AttributeError of
\* a value of another shape is not caught and ends the handler.
HandleRecv(c) ==
    /\ hpc[c] = "idle"
    /\ req[c] = NoRequest
    /\ \E r \in Requests :
          /\ req' = [req EXCEPT ![c] = r]
          /\ IF r.payload = "ok"
                THEN hpc' = [hpc EXCEPT ![c] = "directory"] /\ UNCHANGED resp
             ELSE IF r.payload = "wrongtype"
                THEN hpc' = [hpc EXCEPT ![c] = "failed"] /\ UNCHANGED resp
             ELSE /\ resp' = Respond(c, "request:format")
                  /\ hpc' = [hpc EXCEPT ![c] = "closed"]
    /\ UNCHANGED <<aborted, locked, filters, kind, proc, httpd, wtpc, wdVars,
                   padName, loads, spawns, cleans, stores, releases,
                   enumVars, saveVars>>

\* handle: "if not os.path.isdir(directory)"
HandleDirectory(c) ==
    /\ hpc[c] = "directory"
    /\ IF IsDir(fs, req[c].directory)
          THEN hpc' = [hpc EXCEPT ![c] = "command"] /\ UNCHANGED resp
          ELSE /\ resp' = Respond(c, "directory:invalid")
               /\ hpc' = [hpc EXCEPT ![c] = "closed"]
    /\ UNCHANGED <<aborted, locked, filters, kind, req, proc, httpd, wtpc, wdVars,
                   padName, loads, spawns, cleans, stores, releases,
                   enumVars, saveVars>>

\* handle: the containment check of the real command path
HandleCommand(c) ==
    /\ hpc[c] = "command"
    /\ LET real_command_path ==
               RealPath(fs, JoinPath(req[c].directory, req[c].command))
           real_directory_path == RealPath(fs, req[c].directory)
       IN  IF StartsWithDirectory(real_directory_path, real_command_path)
              THEN hpc' = [hpc EXCEPT ![c] = "file"] /\ UNCHANGED resp
              ELSE /\ resp' = Respond(c, "command:invalid")
                   /\ hpc' = [hpc EXCEPT ![c] = "closed"]
    /\ UNCHANGED <<aborted, locked, filters, kind, req, proc, httpd, wtpc, wdVars,
                   padName, loads, spawns, cleans, stores, releases,
                   enumVars, saveVars>>

\* handle answering a request it dispatches.
HandleFileAck(c) ==
    /\ hpc[c] = "file"
    /\ IF IsFile(fs, RealPath(fs, JoinPath(req[c].directory, req[c].command)))
          THEN /\ hpc' = [hpc EXCEPT ![c] = "test"]
               /\ \E f \in FilterChoices : filters' = [filters EXCEPT ![c] = f]
               /\ resp' = Respond(c, "ok")
          ELSE /\ resp' = Respond(c, "command:invalid-format")
               /\ hpc' = [hpc EXCEPT ![c] = "closed"]
               /\ UNCHANGED filters
    /\ UNCHANGED <<aborted, locked, kind, req, proc, httpd, wtpc, wdVars,
                   padName, loads, spawns, cleans, stores, releases,
                   enumVars, saveVars>>

\* handle: "if not os.path.isfile(real_command_path)", then the call of
\* _launch_executable with the request's save_filters.
HandleFile(c) ==
    /\ hpc[c] = "file"
    /\ IF IsFile(fs, RealPath(fs, JoinPath(req[c].directory, req[c].command)))
          THEN /\ hpc' = [hpc EXCEPT ![c] = "test"]
               /\ \E f \in FilterChoices : filters' = [filters EXCEPT ![c] = f]
               /\ UNCHANGED resp
          ELSE /\ resp' = Respond(c, "command:invalid-format")
               /\ hpc' = [hpc EXCEPT ![c] = "closed"]
               /\ UNCHANGED filters
    /\ UNCHANGED <<aborted, locked, kind, req, proc, httpd, wtpc, wdVars,
                   padName, loads, spawns, cleans, stores, releases,
                   enumVars, saveVars>>

-----------------------------------------------------------------------------
(* saves.py.  The shell commands it runs through os.system are modelled on *)
(* one file tree holding the scratch directory, the durable directory of   *)
(* the game and the staging directory.                                     *)

\* A regular file with its content.
DataNode(v) == [kind |-> "file", target |-> <<>>, data |-> v]

SAVES_DISK == <<"sav">>

\* "{SAVES_DISK}/~tmp"
StagingPath == Append(SAVES_DISK, "~tmp")

\* get_dragonshark_game_save_path(package_base, app)
GameSavePath == SAVES_DISK \o <<"dragonshark", "pkg", "app">>

\* rm -rf p
Remove(t, p) == [q \in {q \in DOMAIN t : ~IsPrefix(p, q)} |-> t[q]]

\* mkdir -p p
MkdirP(t, p) ==
    [q \in DOMAIN t \cup {SubSeq(p, 1, k) : k \in 0 .. Len(p)} |->
        IF q \in DOMAIN t THEN t[q] ELSE DirNode]

\* What the shell makes of "d/*": the entries of d whose names do not
\* start with a dot; none when d is missing (the word then stays as it is
\* and names no file).
ShellStar(t, d) == {Append(d, n) : n \in {n \in ListDir(t, d) : ~IsHidden(n)}}

\* cp -r srcs dst, dst an existing directory: each source goes to
\* dst/<its name>, merged into what is there; an entry that would replace
\* a directory by a file or a file by a directory is not copied, nor what
\* is under it, and cp fails.
CpR(t, srcs, dst) ==
    LET To(q, src) == dst \o SubSeq(q, Len(src), Len(q))
        pairs == {pr \in srcs \X DOMAIN t : IsPrefix(pr[1], pr[2])}
        Clash(q, src) ==
            To(q, src) \in DOMAIN t /\ t[To(q, src)].kind # t[q].kind
        Blocked(pr) ==
            \E k \in Len(pr[1]) .. Len(pr[2]) : Clash(SubSeq(pr[2], 1, k), pr[1])
        written == {pr \in pairs : ~Blocked(pr)}
        From(q2) == CHOOSE pr \in written : To(pr[2], pr[1]) = q2
        dests == {To(pr[2], pr[1]) : pr \in written}
    IN  [t  |-> [q2 \in DOMAIN t \cup dests |->
                    IF q2 \in dests THEN t[From(q2)[2]] ELSE t[q2]],
         ok |-> written = pairs]

\* rename(src, dst), dst not there
Rename(t, src, dst) ==
    LET moved == {q \in DOMAIN t : IsPrefix(src, q)}
        To(q) == dst \o SubSeq(q, Len(src) + 1, Len(q))
        rest  == DOMAIN t \ moved
    IN  [q2 \in rest \cup {To(q) : q \in moved} |->
            IF q2 \in rest THEN t[q2]
            ELSE t[src \o SubSeq(q2, Len(dst) + 1, Len(q2))]]

\* mv src dst for a directory src: a rename when dst is not there; into
\* dst when dst is a directory, unless dst/<name> is there and not an empty
\* directory.
Mv(t, src, dst) ==
    LET into == Append(dst, Last(src)) IN
    IF dst \notin DOMAIN t THEN [t |-> Rename(t, src, dst), ok |-> TRUE]
    ELSE IF t[dst].kind # "dir" THEN [t |-> t, ok |-> FALSE]
    ELSE IF into \notin DOMAIN t THEN [t |-> Rename(t, src, into), ok |-> TRUE]
    ELSE IF t[into].kind = "dir" /\ ListDir(t, into) = {}
        THEN [t |-> Rename(Remove(t, into), src, into), ok |-> TRUE]
    ELSE [t |-> t, ok |-> FALSE]

\* store_dragonshark_save without its "rm -rf {target}"
KeepTarget(t) == t

\* store_dragonshark_save: "rm -rf {target}"
RemoveTarget(t) == Remove(t, GameSavePath)

\* store_dragonshark_save: the chain "cp -r {source}/* {SAVES_DISK}/~tmp &&
\* rm -rf {target} && mv {SAVES_DISK}/~tmp {target} && chown && chmod",
\* which stops at its first failing command.
StoreChain(t) ==
    LET srcs == ShellStar(t, CURRENT_SAVE_LOCATION)
        c    == CpR(t, srcs, StagingPath)
    IN  IF srcs = {} THEN t
        ELSE IF ~c.ok THEN c.t
        ELSE Mv(RemoveTarget(c.t), StagingPath, GameSavePath).t

\* store_dragonshark_save(package, app, save_filters): the tree it leaves,
\* and whether it raised.  The loop over enumerate raises TypeError at its
\* first element, a Path sliced as "element[len(CURRENT_SAVE_LOCATION)+1:]".
StoreDragonsharkSave(t, save_filters) ==
    LET t1 == MkdirP(MkdirP(t, StagingPath), GameSavePath) IN
    IF Enumerate(t1, CURRENT_SAVE_LOCATION, save_filters) # <<>>
        THEN [t |-> t1, raised |-> TRUE]
        ELSE [t |-> StoreChain(t1), raised |-> FALSE]

\* load_dragonshark_save: "rm -rf {target}/*"
ClearScratch(t) ==
    [q \in {q \in DOMAIN t :
              \A s \in ShellStar(t, CURRENT_SAVE_LOCATION) : ~IsPrefix(s, q)}
        |-> t[q]]

\* load_dragonshark_save(package, app): the clearing, then the chain
\* "cp -r {source}/* {target} && chown && chmod".
LoadDragonsharkSave(t) ==
    LET t1   == ClearScratch(t)
        srcs == ShellStar(t1, GameSavePath)
    IN  IF srcs = {} THEN t1 ELSE CpR(t1, srcs, CURRENT_SAVE_LOCATION).t

\* The part of tree t under directory d, by paths relative to d.
Content(t, d) ==
    LET under == {q \in DOMAIN t : IsPrefix(d, q) /\ q # d} IN
    [r \in {SubSeq(q, Len(d) + 1, Len(q)) : q \in under} |-> t[d \o r]]

\* t with the content of directory d replaced by content c.
WithContent(t, d, c) ==
    LET kept == {q \in DOMAIN t : ~IsPrefix(d, q) \/ q = d} IN
    [q \in kept \cup {d \o r : r \in DOMAIN c} |->
        IF q \in kept THEN t[q] ELSE c[SubSeq(q, Len(d) + 1, Len(q))]]

\* What a game may leave in the scratch directory.
ScratchContents ==
    { <<>>,
      ( <<"a">> :> DirNode @@ <<"a", "x">> :> DataNode(1)
        @@ <<"a", "y">> :> DataNode(1)
        @@ <<"b">> :> DirNode @@ <<"b", "z">> :> DataNode(1) ),
      ( <<"a">> :> DirNode @@ <<"a", "x">> :> DataNode(2) ),
      ( <<"f">> :> DataNode(1) ),
      ( <<".h">> :> DataNode(1) ),
      ( <<".h">> :> DataNode(2) @@ <<"a">> :> DirNode
        @@ <<"a", "x">> :> DataNode(1) @@ <<"a", ".h">> :> DataNode(1) ) }

\* The mounted partitions, nothing saved yet, content c in the scratch one.
FreshDisk(c) ==
    WithContent(<<>> :> DirNode @@ CURRENT_SAVE_LOCATION :> DirNode
                @@ SAVES_DISK :> DirNode,
                CURRENT_SAVE_LOCATION, c)

\* hist with entry e added, the last two entries kept.
Logged(e) == IF hist = <<>> THEN <<e>> ELSE <<hist[Len(hist)], e>>

\* The save_filters a store is called with: those of FilterChoices, and
\* the clause that selects everything.
StoreFilters ==
    FilterChoices \cup { << [yes |-> <<"**">>, but |-> <<>>] >> }

\* A session ends: store_dragonshark_save with the session's filters.
SaveStore ==
    /\ \E f \in StoreFilters :
          LET r == StoreDragonsharkSave(disk, f) IN
          /\ disk' = r.t
          /\ hist' = Logged([op |-> "store", save_filters |-> f,
                             before |-> disk, raised |-> r.raised])
    /\ UNCHANGED <<lifeVars, enumVars>>

\* A session starts: load_dragonshark_save.
SaveLoad ==
    /\ disk' = LoadDragonsharkSave(disk)
    /\ hist' = Logged([op |-> "load", save_filters |-> <<>>,
                       before |-> disk, raised |-> FALSE])
    /\ UNCHANGED <<lifeVars, enumVars>>

\* The running game rewrites the scratch directory.
GameWrites ==
    /\ \E c \in ScratchContents :
          /\ c # Content(disk, CURRENT_SAVE_LOCATION)
          /\ disk' = WithContent(disk, CURRENT_SAVE_LOCATION, c)
    /\ hist' = Logged([op |-> "play", save_filters |-> <<>>,
                       before |-> disk, raised |-> FALSE])
    /\ UNCHANGED <<lifeVars, enumVars>>

SaveIdle ==
    /\ disk = FreshDisk(<<>>)
    /\ hist = <<>>

-----------------------------------------------------------------------------
(* Specifications *)

LifeIdle ==
    /\ locked = FALSE
    /\ hpc = [c \in Conns |-> "idle"]
    /\ filters = [c \in Conns |-> <<>>]
    /\ kind = [c \in Conns |-> "none"]
    /\ req = [c \in Conns |-> NoRequest]
    /\ resp = [c \in Conns |-> <<>>]
    /\ aborted = [c \in Conns |-> "no"]
    /\ proc = [c \in Conns |-> "none"]
    /\ httpd = [c \in Conns |-> "off"]
    /\ wtpc = [c \in Conns |-> "off"]
    /\ wdpc = [c \in Conns |-> "off"]
    /\ pads = [c \in Conns |-> NoPads]
    /\ loads = [c \in Conns |-> 0]
    /\ spawns = [c \in Conns |-> 0]
    /\ cleans = [c \in Conns |-> 0]
    /\ stores = [c \in Conns |-> 0]
    /\ releases = [c \in Conns |-> 0]
    /\ kills = [c \in Conns |-> 0]
    /\ deadKills = [c \in Conns |-> 0]

\* The daemon after construction: no connection yet, one joystick.
Init ==
    /\ LifeIdle
    /\ padName = [i \in {1} |-> "padA"]
    /\ held = [c \in Conns |-> [i \in {1} |-> 0]]
    /\ fs = BaseTree
    /\ clauses = <<>>
    /\ EnumIdle
    /\ SaveIdle

Next ==
    \E c \in Conns :
        \/ Accept(c)
        \/ LockTest(c)
        \/ LockSet(c)
        \/ GetExecutableType(c)
        \/ LoadSave(c)
        \/ EnsureExecutable(c)
        \/ GetEnvForUser(c)
        \/ SpawnNative(c)
        \/ StartHttpServer(c)
        \/ RunBrowser(c)
        \/ ProcExit(c)
        \/ WaiterWait(c)
        \/ WaiterClean(c)
        \/ WaiterStore(c)
        \/ WaiterShutdown(c)
        \/ WaiterRelease(c)
        \/ WdCheck(c)
        \/ WdTick(c)

Spec == Init /\ [][Next]_vars

\* enumerate on every tree and clause list of the bounds
EnumInit ==
    /\ LifeIdle
    /\ padName = [i \in {1} |-> "padA"]
    /\ held = [c \in Conns |-> [i \in {1} |-> 0]]
    /\ fs \in Trees
    /\ clauses \in ClauseLists
    /\ EnumIdle
    /\ SaveIdle

EnumNext ==
    \/ EnumClause
    \/ EnumCandidate

EnumSpec == EnumInit /\ [][EnumNext]_vars


\* One native session already running: its child, its waiter and its
\* watchdog, with MaxPads joysticks of any names.
WdInit ==
    /\ locked = TRUE
    /\ hpc = [c \in Conns |-> IF c = 1 THEN "closed" ELSE "idle"]
    /\ filters = [c \in Conns |-> <<>>]
    /\ kind = [c \in Conns |-> IF c = 1 THEN "exe" ELSE "none"]
    /\ req = [c \in Conns |-> NoRequest]
    /\ resp = [c \in Conns |-> <<>>]
    /\ aborted = [c \in Conns |-> "no"]
    /\ proc = [c \in Conns |-> IF c = 1 THEN "running" ELSE "none"]
    /\ httpd = [c \in Conns |-> "off"]
    /\ wtpc = [c \in Conns |-> IF c = 1 THEN "wait" ELSE "off"]
    /\ wdpc = [c \in Conns |-> IF c = 1 THEN "check" ELSE "off"]
    /\ pads = [c \in Conns |-> NoPads]
    /\ loads = [c \in Conns |-> IF c = 1 THEN 1 ELSE 0]
    /\ spawns = [c \in Conns |-> IF c = 1 THEN 1 ELSE 0]
    /\ cleans = [c \in Conns |-> 0]
    /\ stores = [c \in Conns |-> 0]
    /\ releases = [c \in Conns |-> 0]
    /\ kills = [c \in Conns |-> 0]
    /\ deadKills = [c \in Conns |-> 0]
    /\ padName \in [1 .. MaxPads -> PadNames]
    /\ held = [c \in Conns |-> [i \in 1 .. MaxPads |-> 0]]
    /\ fs = BaseTree
    /\ clauses = <<>>
    /\ EnumIdle
    /\ SaveIdle

WdNext ==
    \/ WdCheck(1)
    \/ WdTick(1)
    \/ ProcExit(1)

WdSpec == WdInit /\ [][WdNext]_vars

\* The watchdog thread, once started, is scheduled until it ends.
WdFairness ==
    /\ WF_vars(WdCheck(1))
    /\ WF_vars(WdTick(1))

WdFairSpec == WdInit /\ [][WdNext]_vars /\ WdFairness

SaveInit ==
    /\ LifeIdle
    /\ padName = [i \in {1} |-> "padA"]
    /\ held = [c \in Conns |-> [i \in {1} |-> 0]]
    /\ fs = BaseTree
    /\ clauses = <<>>
    /\ EnumIdle
    /\ disk \in {FreshDisk(c) : c \in ScratchContents}
    /\ hist = <<>>

SaveNext ==
    \/ SaveStore
    \/ SaveLoad
    \/ GameWrites

SaveSpec == SaveInit /\ [][SaveNext]_vars

\* One connection, on a tree holding a game directory.
HandleInit ==
    /\ LifeIdle
    /\ padName = [i \in {1} |-> "padA"]
    /\ held = [c \in Conns |-> [i \in {1} |-> 0]]
    /\ fs \in HandleTrees
    /\ clauses = <<>>
    /\ EnumIdle
    /\ SaveIdle

HandleNext ==
    \/ HandleRecv(1)
    \/ HandleDirectory(1)
    \/ HandleCommand(1)
    \/ HandleFile(1)
    \/ LockTest(1)
    \/ LockSet(1)
    \/ GetExecutableType(1)
    \/ LoadSave(1)
    \/ EnsureExecutable(1)
    \/ GetEnvForUser(1)
    \/ SpawnNative(1)
    \/ StartHttpServer(1)
    \/ RunBrowser(1)
    \/ ProcExit(1)
    \/ WaiterWait(1)
    \/ WaiterClean(1)
    \/ WaiterStore(1)
    \/ WaiterShutdown(1)
    \/ WaiterRelease(1)
    \/ WdCheck(1)
    \/ WdTick(1)

HandleSpec == HandleInit /\ [][HandleNext]_vars

\* run_native _func: store_dragonshark_save(package, app, save_filters) on
\* the disk as the game left it; when it raises, the thread ends there.
WaiterStoreDisk(c) ==
    /\ wtpc[c] = "store"
    /\ stores' = [stores EXCEPT ![c] = @ + 1]
    /\ LET r == StoreDragonsharkSave(disk, filters[c]) IN
          /\ disk' = r.t
          /\ hist' = Logged([op |-> "store", save_filters |-> filters[c],
                             before |-> disk, raised |-> r.raised])
          /\ wtpc' = [wtpc EXCEPT ![c] = IF r.raised THEN "raised" ELSE "release"]
    /\ UNCHANGED <<aborted, locked, hpc, filters, kind, resp, proc, httpd, wdVars,
                   padName, loads, spawns, cleans, releases, enumVars, req>>

\* The running game of session c rewrites the scratch directory.
SessionWrites(c) ==
    /\ proc[c] = "running"
    /\ GameWrites

\* One native session already running, with any of the filters, on a disk
\* whose scratch directory holds what the load left there; the steps of
\* its child and of its waiter thread.
CommitInit ==
    /\ locked = TRUE
    /\ hpc = [c \in Conns |-> IF c = 1 THEN "closed" ELSE "idle"]
    /\ filters \in {[c \in Conns |-> IF c = 1 THEN f ELSE <<>>] : f \in FilterChoices}
    /\ kind = [c \in Conns |-> IF c = 1 THEN "exe" ELSE "none"]
    /\ req = [c \in Conns |-> NoRequest]
    /\ resp = [c \in Conns |-> <<>>]
    /\ aborted = [c \in Conns |-> "no"]
    /\ proc = [c \in Conns |-> IF c = 1 THEN "running" ELSE "none"]
    /\ httpd = [c \in Conns |-> "off"]
    /\ wtpc = [c \in Conns |-> IF c = 1 THEN "wait" ELSE "off"]
    /\ wdpc = [c \in Conns |-> IF c = 1 THEN "check" ELSE "off"]
    /\ pads = [c \in Conns |-> NoPads]
    /\ loads = [c \in Conns |-> IF c = 1 THEN 1 ELSE 0]
    /\ spawns = [c \in Conns |-> IF c = 1 THEN 1 ELSE 0]
    /\ cleans = [c \in Conns |-> 0]
    /\ stores = [c \in Conns |-> 0]
    /\ releases = [c \in Conns |-> 0]
    /\ kills = [c \in Conns |-> 0]
    /\ deadKills = [c \in Conns |-> 0]
    /\ padName = [i \in {1} |-> "padA"]
    /\ held = [c \in Conns |-> [i \in {1} |-> 0]]
    /\ fs = BaseTree
    /\ clauses = <<>>
    /\ EnumIdle
    /\ disk \in {FreshDisk(c) : c \in ScratchContents}
    /\ hist = <<>>

CommitNext ==
    \/ SessionWrites(1)
    \/ ProcExit(1)
    \/ WaiterWait(1)
    \/ WaiterClean(1)
    \/ WaiterStoreDisk(1)
    \/ WaiterRelease(1)

\* The waiter thread, once started, is scheduled until it ends: weak
\* fairness of each of its steps.  That of WaiterStoreDisk(1), which is
\* enabled exactly while wtpc[1] = "store" and then leaves that position,
\* is written out as "not at store for ever".
CommitFairness ==
    /\ WF_vars(WaiterWait(1))
    /\ WF_vars(WaiterClean(1))
    /\ []<>(wtpc[1] # "store")
    /\ WF_vars(WaiterRelease(1))

CommitSpec == CommitInit /\ [][CommitNext]_vars /\ CommitFairness


-----------------------------------------------------------------------------
(* saves._copy, the function the loop of store_dragonshark_save calls for  *)
(* each selected path, run over the elements of yesbut.enumerate.          *)

\* Some proper ancestor of p, or p itself, is there and is no directory:
\* Path.mkdir(parents=True, exist_ok=True) of p then raises.
MkdirBlocked(t, p) ==
    \E k \in 1 .. Len(p) :
        SubSeq(p, 1, k) \in DOMAIN t /\ t[SubSeq(p, 1, k)].kind # "dir"

\* _copy(from_dir, to_dir, what): the tree it leaves and whether it
\* raised.  A directory is merged into the destination by copytree with
\* dirs_exist_ok, every entry under it, dot names too; a file is copied by
\* copy2 after its parent directories are made, into the destination when
\* that is a directory.
Copy(t, from_dir, to_dir, what) ==
    LET src == from_dir \o what
        dst == to_dir \o what
    IN  IF IsDir(t, src)
            THEN IF MkdirBlocked(t, dst) THEN [t |-> t, raised |-> TRUE]
                 ELSE LET t1 == MkdirP(t, dst)
                          r  == CpR(t1, {Append(src, n) : n \in ListDir(t1, src)}, dst)
                      IN  [t |-> r.t, raised |-> ~r.ok]
        ELSE IF MkdirBlocked(t, Front(dst)) THEN [t |-> t, raised |-> TRUE]
        ELSE LET t1 == MkdirP(t, Front(dst))
                 to == IF dst \in DOMAIN t1 /\ t1[dst].kind = "dir"
                          THEN Append(dst, Last(src)) ELSE dst
             IN  IF to \in DOMAIN t1 /\ t1[to].kind = "dir"
                     THEN [t |-> t1, raised |-> TRUE]
                     ELSE [t |-> [q \in DOMAIN t1 \cup {to} |->
                                      IF q = to THEN t1[src] ELSE t1[q]],
                           raised |-> FALSE]

\* The clause lists the per-path copy is run for.
CopyFilters ==
    (StoreFilters \ {<<>>})
    \cup { << [yes |-> <<"a">>, but |-> << <<"a", "x">> >>] >>,
           << [yes |-> <<"*">>, but |-> << <<"a", "*">> >>] >>,
           << [yes |-> <<"b", "z">>, but |-> <<>>] >> }

\* The disk at a store: content c in the scratch directory, content d in
\* the durable directory of the game, the staging directory made.
StoreDisk(c, d) ==
    WithContent(MkdirP(MkdirP(FreshDisk(c), StagingPath), GameSavePath),
                GameSavePath, d)

\* "relative_element = element[len(CURRENT_SAVE_LOCATION)+1:]" for each
\* element of enumerate, taken as the string the slice is written for.
RelativeElements(t, save_filters) ==
    LET els == Enumerate(t, CURRENT_SAVE_LOCATION, save_filters) IN
    [i \in 1 .. Len(els) |->
        SubSeq(els[i], Len(CURRENT_SAVE_LOCATION) + 1, Len(els[i]))]

\* One pass of the loop body: "if not relative_element: continue", else
\* _copy(from_dir=CURRENT_SAVE_LOCATION, to_dir=target, what=relative_element).
CopyElement ==
    /\ cands # <<>>
    /\ disk' = IF Head(cands) = <<>> THEN disk
               ELSE Copy(disk, CURRENT_SAVE_LOCATION, GameSavePath, Head(cands)).t
    /\ cands' = Tail(cands)
    /\ out' = Append(out, Head(cands))
    /\ UNCHANGED <<lifeVars, fs, clauses, ci, seen, hist>>

\* The loop about to start, for any scratch content, any durable content
\* and any of the clause lists.
CopyInit ==
    /\ LifeIdle
    /\ padName = [i \in {1} |-> "padA"]
    /\ held = [c \in Conns |-> [i \in {1} |-> 0]]
    /\ fs = BaseTree
    /\ clauses \in CopyFilters
    /\ ci = 0
    /\ seen = {}
    /\ out = <<>>
    /\ disk \in {StoreDisk(c, d) : c \in ScratchContents, d \in ScratchContents}
    /\ cands = RelativeElements(disk, clauses)
    /\ hist = << [op |-> "copy", save_filters |-> clauses,
                  before |-> disk, raised |-> FALSE] >>

CopyNext == CopyElement

CopySpec == CopyInit /\ [][CopyNext]_vars


-----------------------------------------------------------------------------
(* Properties of the launch lifecycle *)

\* C1: under any interleaving of concurrently handled launch requests, at
\* most one session is Active at a time: two requests never both pass the
\* admission check and both go on to spawn a game that runs at once.
C1_AtMostOneSession ==
    \A c, d \in Conns :
        c # d => ~(proc[c] = "running" /\ proc[d] = "running")

\* No launch attempt other than c is under way or in session.
OnlyAttempt(c) == \A d \in Conns \ {c} : hpc[d] = "idle"

\* C2: if ensure_executable fails on the native path after the lock was
\* taken, the release callback has fired exactly once and the Session Lock
\* is back to Idle (locked = FALSE while no other attempt is under way).
C2_ReleasedWhenEnsureFails ==
    \A c \in Conns :
        aborted[c] = "ensure" =>
            /\ releases[c] = 1
            /\ OnlyAttempt(c) => ~locked

\* C3: if dispatch aborts by an exception before the waiter is started
\* (classification fails, the environment resolver raises, the spawn
\* fails), the release callback has been invoked exactly once and the
\* Session Lock is back to Idle.
C3_ReleasedWhenDispatchRaises ==
    \A c \in Conns :
        aborted[c] \in {"classify", "env", "spawn"} =>
            /\ releases[c] = 1
            /\ OnlyAttempt(c) => ~locked

\* The waiter thread of c was started and has ended.
WaiterEnded(c) == wtpc[c] \in {"done", "raised"}

\* C4: for every native session whose child was spawned, each step of the
\* cleanup sequence (clear the account's jobs and processes, commit the
\* save, invoke the release callback) runs at most once, and has run once
\* the waiter thread has ended, whether the child exited or was killed.
C4_CleanupExactlyOnce ==
    \A c \in Conns :
        (kind[c] = "exe" /\ spawns[c] = 1) =>
            /\ cleans[c] <= 1 /\ stores[c] <= 1 /\ releases[c] <= 1
            /\ WaiterEnded(c) =>
                  (cleans[c] = 1 /\ stores[c] = 1 /\ releases[c] = 1)

\* The handler of c found the lock Active and answered.
Rejected(c) == resp[c] = <<"command:game-already-running">>

\* C5: a launch attempt that finds the Session Lock Active gets the answer
\* command:game-already-running in that step, which loads no save, spawns
\* no process and leaves the lock value unchanged; once rejected the
\* attempt stays closed for good, with no load, no child, no waiter and no
\* watchdog of its own, whatever the lock does later.
C5_RejectedWhileActive ==
    /\ [][\A c \in Conns :
            (hpc[c] = "test" /\ locked /\ hpc'[c] # "test") =>
                /\ resp'[c] = <<"command:game-already-running">>
                /\ hpc'[c] = "closed"
                /\ locked' = locked
                /\ loads' = loads /\ spawns' = spawns /\ proc' = proc]_vars
    /\ [](\A c \in Conns :
            Rejected(c) =>
                /\ hpc[c] = "closed"
                /\ loads[c] = 0 /\ spawns[c] = 0 /\ proc[c] = "none"
                /\ wtpc[c] = "off" /\ wdpc[c] = "off")

\* A rejected attempt, its lock since released by the session that held it.
C5_Witness ==
    \E c, d \in Conns :
        /\ c # d
        /\ Rejected(c) /\ hpc[c] = "closed"
        /\ releases[d] = 1 /\ ~locked


-----------------------------------------------------------------------------
(* Properties of yesbut.enumerate *)

\* The paths yielded so far.
Yielded == SeqRange(out)

\* C8: every path yielded by enumerate has its real path in the reference
\* directory, whatever the yes patterns and the symbolic links of the tree.
C8_YieldedInsideReference ==
    \A p \in Yielded : IsPrefix(CURRENT_SAVE_LOCATION, p)

\* The run is over a single clause and has ended.
SingleClauseDone == Len(clauses) = 1 /\ EnumDone

\* The matches of the clause's yes pattern in the reference directory.
YesMatches(clause) ==
    SeqRange(IterYesRoots(fs, CURRENT_SAVE_LOCATION, clause.yes))

\* The existing entries of the tree that are a yes match or lie under one.
UnderYesMatches(clause) ==
    {q \in DOMAIN fs : /\ Exists(fs, q)
                       /\ \E r \in YesMatches(clause) : IsPrefix(r, q)}

\* C9: for a single clause, enumerate yields the yes matches and all their
\* descendants that match no but pattern, yields no candidate matching a
\* but pattern, and a path that is neither a yes match nor under one never
\* appears.
C9_ExactlyYesMinusBut ==
    SingleClauseDone =>
        LET clause == clauses[1] IN
        /\ \A q \in UnderYesMatches(clause) :
              ~MatchesAnyBut(fs, CURRENT_SAVE_LOCATION, q, clause.but)
                  => Resolve(fs, q) \in Yielded
        /\ \A p \in Yielded :
              ~MatchesAnyBut(fs, CURRENT_SAVE_LOCATION, p, clause.but)
        /\ \A p \in Yielded : \E r \in YesMatches(clause) : IsPrefix(r, p)

\* The example of C9: a root holding a/x, a/y, b/z and the clause
\* yes = "a/**", but = ["a/y"] yield exactly a and a/x.
C9_Example ==
    (/\ SingleClauseDone
     /\ fs = PlainTree
     /\ clauses[1] = [yes |-> <<"a", "**">>, but |-> << <<"a", "y">> >>])
        => Yielded = {<<"cur", "a">>, <<"cur", "a", "x">>}

\* The two spellings of the but pattern naming the directory a/sub.
SubSpellings == { <<"a", "sub">>, <<"", "a", "sub", "">> }

\* The excluded directory of C10.
ExcludedDir == CURRENT_SAVE_LOCATION \o <<"a", "sub">>

\* C10: a but pattern naming a directory excludes the whole subtree. With
\* a but pattern a/sub in the running clause no yielded path is a/sub or
\* lies under it at any depth; and the clause yes = "a", but = ["a/sub"]
\* over a directory a yields a and the real path of each of its existing
\* descendants whose real path is neither a/sub nor under it.
C10_ButExcludesSubtree ==
    /\ (ci >= 1 /\ Len(clauses) = 1
            /\ \E i \in 1 .. Len(clauses[1].but) :
                  clauses[1].but[i] \in SubSpellings)
          => \A p \in Yielded : ~IsPrefix(ExcludedDir, p)
    /\ (/\ SingleClauseDone
        /\ clauses[1].yes = <<"a">>
        /\ Len(clauses[1].but) = 1 /\ clauses[1].but[1] \in SubSpellings
        /\ <<"cur", "a">> \in DOMAIN fs
        /\ fs[<<"cur", "a">>].kind = "dir")
          => /\ <<"cur", "a">> \in Yielded
             /\ \A q \in DOMAIN fs :
                   (/\ IsPrefix(<<"cur", "a">>, q)
                    /\ Exists(fs, q)
                    /\ ~IsPrefix(ExcludedDir, Resolve(fs, q)))
                      => Resolve(fs, q) \in Yielded

\* The run over yes = "a", but = ["a/sub"] has ended on a tree that has
\* a/sub/f and a/sub/d/g, having yielded a/x.
C10_Witness ==
    /\ SingleClauseDone
    /\ clauses[1] = [yes |-> <<"a">>, but |-> << <<"a", "sub">> >>]
    /\ <<"cur", "a", "sub", "d", "g">> \in DOMAIN fs
    /\ <<"cur", "a", "x">> \in Yielded
    /\ <<"cur", "a", ".h">> \in Yielded


-----------------------------------------------------------------------------
(* Properties of the hotkey watchdog *)

\* C6: while the watchdog runs, a controller holding both buttons on
\* HOTKEY_HOLD_CHECK_TIME consecutive ticks causes exactly one kill, on the
\* tick that completes its run, after which the loop has ended; there is
\* no kill without such a run, so a controller that released after fewer
\* ticks starts again from nothing.
C6_KillOnSixthConsecutiveTick ==
    \A c \in Conns :
        wdpc[c] # "off" =>
            /\ kills[c] <= 1
            /\ (\E i \in DOMAIN padName : held[c][i] >= HOTKEY_HOLD_CHECK_TIME)
                  => (kills[c] = 1 /\ wdpc[c] = "done")
            /\ kills[c] = 1
                  => \E i \in DOMAIN padName :
                        held[c][i] = HOTKEY_HOLD_CHECK_TIME

\* C7: the kill action is never invoked once the child has exited, for
\* every interleaving of the child's exit with the steps of the watchdog.
C7_NoKillAfterExit ==
    \A c \in Conns :
        /\ deadKills[c] = 0
        /\ proc[c] = "exited" => kills[c] = 0


-----------------------------------------------------------------------------
(* Properties of yesbut.enumerate: duplicates *)

\* The real paths of the candidates of one clause that exist and match no
\* but pattern, in the order the loops meet them, duplicates included.
ClauseSurvivors(t, clause) ==
    LET cs   == ClauseCandidates(t, CURRENT_SAVE_LOCATION, clause)
        kept == SelectSeq(cs, LAMBDA q :
                    /\ Exists(t, q)
                    /\ ~MatchesAnyBut(t, CURRENT_SAVE_LOCATION, q, clause.but))
    IN  [i \in 1 .. Len(kept) |-> Resolve(t, kept[i])]

\* The same over a list of clauses.
AllSurvivors(t, cls) ==
    FlattenSeq([i \in 1 .. Len(cls) |-> ClauseSurvivors(t, cls[i])])

\* s with every element that occurred earlier in it removed.
RECURSIVE KeepFirst(_, _)
KeepFirst(s, before) ==
    IF s = <<>> THEN <<>>
    ELSE IF Head(s) \in before THEN KeepFirst(Tail(s), before)
    ELSE <<Head(s)>> \o KeepFirst(Tail(s), before \cup {Head(s)})

\* C11: the sequence produced by enumerate holds each real path at most
\* once, for any list of clauses; when the run has ended the sequence is
\* that of all surviving candidates of all clauses, in order, with each
\* first occurrence kept in its position and the later ones suppressed.
C11_EachPathOnce ==
    /\ \A i, j \in 1 .. Len(out) : i # j => out[i] # out[j]
    /\ EnumDone => out = KeepFirst(AllSurvivors(fs, clauses), {})

\* A run over two clauses has ended; both clauses select a/x, which was
\* yielded.
C11_Witness ==
    /\ EnumDone
    /\ Len(clauses) = 2
    /\ <<"cur", "a", "x">> \in SeqRange(ClauseSurvivors(fs, clauses[1]))
    /\ <<"cur", "a", "x">> \in SeqRange(ClauseSurvivors(fs, clauses[2]))
    /\ <<"cur", "a", "x">> \in Yielded


-----------------------------------------------------------------------------
(* Properties of saves.py *)

\* The last save operation and the one before it.
LastOp == hist[Len(hist)]

PrevOp == hist[1]

\* The scratch and the durable content of tree t.
Scratch(t) == Content(t, CURRENT_SAVE_LOCATION)

Durable(t) == Content(t, GameSavePath)

\* The paths, relative to the scratch directory, that the clauses select.
Covered(t, save_filters) ==
    LET sel == SeqRange(Enumerate(t, CURRENT_SAVE_LOCATION, save_filters)) IN
    {SubSeq(p, Len(CURRENT_SAVE_LOCATION) + 1, Len(p)) :
        p \in {p \in sel : IsPrefix(CURRENT_SAVE_LOCATION, p)}}

\* C12: store() with non-empty filters never deletes from the durable
\* directory: every file that was there before the store and is covered
\* by no clause is still there afterwards, with the same content.
C12_FilteredStoreKeepsDurable ==
    (hist # <<>> /\ LastOp.op = "store" /\ LastOp.save_filters # <<>>) =>
        \A r \in DOMAIN Durable(LastOp.before) :
            (/\ Durable(LastOp.before)[r].kind = "file"
             /\ r \notin Covered(LastOp.before, LastOp.save_filters))
                => /\ r \in DOMAIN Durable(disk)
                   /\ Durable(disk)[r] = Durable(LastOp.before)[r]

\* C13: store() with empty filters followed at once by load() leaves the
\* scratch directory with the files and the content it had when store()
\* was called, for every scratch content.
C13_StoreThenLoadRestoresScratch ==
    (/\ Len(hist) = 2
     /\ PrevOp.op = "store" /\ PrevOp.save_filters = <<>>
     /\ LastOp.op = "load")
        => Scratch(disk) = Scratch(PrevOp.before)

\* C14: store() is idempotent: a second store() right after a first one,
\* with the same filters and the scratch directory as it was, leaves the
\* durable directory as the first call left it, and the staging directory
\* too; it changes nothing on the disk and ends as the first one did.
C14_StoreIdempotent ==
    (/\ Len(hist) = 2
     /\ PrevOp.op = "store" /\ LastOp.op = "store"
     /\ PrevOp.save_filters = LastOp.save_filters)
        => /\ Durable(disk) = Durable(LastOp.before)
           /\ (StagingPath \in DOMAIN disk) = (StagingPath \in DOMAIN LastOp.before)
           /\ Content(disk, StagingPath) = Content(LastOp.before, StagingPath)
           /\ disk = LastOp.before
           /\ LastOp.raised = PrevOp.raised

\* Two full-replace stores in a row of a scratch directory that is not
\* empty.
C14_Witness ==
    /\ Len(hist) = 2
    /\ PrevOp.op = "store" /\ LastOp.op = "store"
    /\ PrevOp.save_filters = <<>> /\ LastOp.save_filters = <<>>
    /\ <<"a", "x">> \in DOMAIN Scratch(disk)
    /\ <<"a", "x">> \in DOMAIN Durable(disk)

\* C15: after load() the scratch directory holds exactly the content of
\* the durable save directory of the game; nothing an earlier session left
\* in the scratch directory is still there.
C15_LoadReplacesScratch ==
    (hist # <<>> /\ LastOp.op = "load") => Scratch(disk) = Durable(disk)


-----------------------------------------------------------------------------
(* Properties of the launch lifecycle: order of the steps *)

\* The child of c has ended, by itself or killed.
ChildEnded(c) == proc[c] \in {"exited", "killed"}

\* C16: in every native session the lock is taken before the save load,
\* the save load is over before the child is spawned, the save commit
\* starts only after the child has ended, the lock is released only after
\* the save commit has finished, and the lock stays Active from admission
\* until that release.
C16_NativeStepsInOrder ==
    \A c \in Conns :
        /\ loads[c] >= 1 => (kind[c] = "exe" /\ hpc[c] \notin {"idle", "test", "set"})
        /\ (kind[c] = "exe" /\ spawns[c] >= 1) => (loads[c] = 1 /\ hpc[c] = "closed")
        /\ stores[c] >= 1 => ChildEnded(c)
        /\ (kind[c] = "exe" /\ releases[c] >= 1) => (stores[c] = 1 /\ wtpc[c] = "done")
        /\ (kind[c] = "exe" /\ releases[c] = 0) => locked


\* The watchdog of native session c killed its running child.
ForcedKill(c) == kind[c] = "exe" /\ kills[c] = 1 /\ deadKills[c] = 0

\* C17: when the watchdog force-kills the child of a native session the
\* save commit still runs, once and after the kill, and is followed by the
\* release of the lock: once the waiter of such a session has ended, the
\* store has run once and the release callback once.
C17_StoreAfterForcedKill ==
    \A c \in Conns :
        ForcedKill(c) =>
            /\ proc[c] = "killed"
            /\ stores[c] <= 1 /\ releases[c] <= stores[c]
            /\ WaiterEnded(c) => (stores[c] = 1 /\ releases[c] = 1)


-----------------------------------------------------------------------------
(* Properties of GameLauncherRequestHandler.handle *)

\* The handler of c is done with the checks of its request.
ChecksDone(c) == hpc[c] \notin {"idle", "directory", "command", "file"}

ValidationHints ==
    {"request:format", "directory:invalid", "command:invalid",
     "command:invalid-format"}

\* The request of c passed every check and went to _launch_executable.
Dispatched(c) ==
    /\ req[c].payload = "ok"
    /\ ChecksDone(c)
    /\ \A i \in 1 .. Len(resp[c]) : resp[c][i] \notin ValidationHints

\* The real paths of the directory and of the command of c's request.
RealDirectory(c) == RealPath(fs, req[c].directory)

RealCommand(c) == RealPath(fs, JoinPath(req[c].directory, req[c].command))

\* Path q lies strictly inside directory d.
StrictlyInside(d, q) == IsPrefix(d, q) /\ q # d

EtcPasswd == <<"..", "..", "etc", "passwd">>

FirstFailing(t, r) ==
    IF r.payload # "ok" THEN "request:format"
    ELSE IF ~IsDir(t, r.directory) THEN "directory:invalid"
    ELSE IF ~StrictlyInside(RealPath(t, r.directory),
                            RealPath(t, JoinPath(r.directory, r.command)))
        THEN "command:invalid"
    ELSE IF ~IsFile(t, RealPath(t, JoinPath(r.directory, r.command)))
        THEN "command:invalid-format"
    ELSE ""

\* C19: a request that fails validation gets exactly one error response,
\* with the hint of the first failing check in the order request:format,
\* directory:invalid, command:invalid, command:invalid-format, and is
\* handled before admission: the lock is not changed, no save is loaded,
\* nothing is spawned.
C19_OneHintForFirstFailingCheck ==
    \A c \in Conns :
        (/\ req[c] # NoRequest
         /\ ChecksDone(c)
         /\ FirstFailing(fs, req[c]) # "")
            => /\ resp[c] = <<FirstFailing(fs, req[c])>>
               /\ hpc[c] = "closed"
               /\ ~locked /\ kind[c] = "none"
               /\ loads[c] = 0 /\ spawns[c] = 0 /\ proc[c] = "none"


\* C20: when a valid request is admitted and the game is launched, nothing
\* is written back on the control connection, neither by the checks nor by
\* the launch, before the handler closes it: a session whose child was
\* spawned has sent no response.
C20_NoResponseOnLaunch ==
    \A c \in Conns : spawns[c] >= 1 => resp[c] = <<>>

\* A valid request was dispatched, its game spawned and its connection
\* closed.
C20_Witness ==
    /\ req[1].payload = "ok"
    /\ Dispatched(1)
    /\ spawns[1] = 1
    /\ hpc[1] = "closed"
    /\ resp[1] = <<>>


-----------------------------------------------------------------------------
(* Properties of the launch lifecycle: browser sessions, the save commit,   *)
(* exceptions                                                              *)

\* C21: a browser-hosted session runs no save load, no gamer cleanup and no
\* save store; its release callback is invoked at most once, only after
\* its browser has ended and its static file server was shut down, and has
\* been invoked once its waiter has ended.
C21_WebSessionBypassesScratch ==
    \A c \in Conns :
        kind[c] = "web" =>
            /\ loads[c] = 0 /\ cleans[c] = 0 /\ stores[c] = 0
            /\ releases[c] <= 1
            /\ releases[c] = 1 => (ChildEnded(c) /\ httpd[c] = "down")
            /\ wtpc[c] \in {"release", "done"} => httpd[c] = "down"
            /\ WaiterEnded(c) => releases[c] = 1

\* A browser session whose browser exited and whose waiter has released
\* the lock.
C21_Witness ==
    /\ kind[1] = "web"
    /\ spawns[1] = 1
    /\ proc[1] = "exited"
    /\ wtpc[1] = "done"
    /\ httpd[1] = "down"
    /\ releases[1] = 1


\* The save_filters of session c select something in the scratch directory.
FiltersSelect(c) ==
    /\ filters[c] # <<>>
    /\ Enumerate(disk, CURRENT_SAVE_LOCATION, filters[c]) # <<>>

\* C22: for an admitted native session whose save_filters are non-empty
\* and select at least one path of the scratch directory, once the child
\* has ended the filtered save commit runs to completion and the release
\* callback is then invoked: the waiter ends and the Session Lock is Idle
\* again.
C22_FilteredCommitReleases ==
    \A c \in {1} :
        (/\ kind[c] = "exe" /\ ChildEnded(c)
         /\ wtpc[c] \in {"wait", "clean", "store"}
         /\ FiltersSelect(c))
            ~> (wtpc[c] = "done" /\ releases[c] = 1 /\ ~locked)


\* C23: every exception raised during dispatch after the lock was taken,
\* in the content-kind classification as well as inside the native or the
\* browser run_game, is caught by the handler and answered with exactly
\* one error response, of hint unknown, after which the handler closes the
\* connection.
C23_DispatchExceptionsAnswered ==
    \A c \in Conns :
        aborted[c] \in {"classify", "env", "spawn", "server"} =>
            /\ resp[c] = <<"unknown">>
            /\ hpc[c] = "closed"


-----------------------------------------------------------------------------
(* Properties of the hotkey watchdog: controllers of the same name *)

\* The largest number of consecutive ticks any one joystick has held both
\* buttons, as of the last tick of the watchdog of c.
LongestHold(c) ==
    CHOOSE n \in 0 .. HOTKEY_HOLD_CHECK_TIME :
        /\ \A i \in DOMAIN padName : held[c][i] <= n
        /\ n = 0 \/ \E i \in DOMAIN padName : held[c][i] = n

\* C24: the watchdog invokes the kill action only when one single
\* controller has held both buttons on each of the last
\* HOTKEY_HOLD_CHECK_TIME consecutive ticks; no counter of its dict is
\* ahead of the controllers, a counter grows by at most one per tick, and
\* a name no controller holds for has no counter.  For any set of
\* controllers, several of the same device name included.
C24_KillOnlyAfterSingleControllerHold ==
    /\ [](\A c \in Conns :
            wdpc[c] # "off" =>
                /\ kills[c] >= 1 =>
                      \E i \in DOMAIN padName :
                          held[c][i] >= HOTKEY_HOLD_CHECK_TIME
                /\ \A n \in DOMAIN pads[c] : pads[c][n] <= LongestHold(c))
    /\ [][\A c \in Conns : \A n \in DOMAIN pads'[c] :
            pads'[c][n] <= (IF n \in DOMAIN pads[c] THEN pads[c][n] ELSE 0) + 1]_vars


-----------------------------------------------------------------------------
(* Properties of yesbut.enumerate: clauses are independent *)

\* Candidate q of a clause is excluded by the but patterns of that clause.
ExcludedBy(t, clause, q) ==
    /\ q \in SeqRange(ClauseCandidates(t, CURRENT_SAVE_LOCATION, clause))
    /\ Exists(t, q)
    /\ MatchesAnyBut(t, CURRENT_SAVE_LOCATION, q, clause.but)

\* C25: the but patterns of a clause apply to that clause's candidates
\* only.  When the run has ended, every existing candidate of a clause
\* that matches none of that clause's own but patterns is in the result,
\* whatever the but patterns of the other clauses exclude.
C25_ButAppliesToOwnClause ==
    EnumDone =>
        \A i \in 1 .. Len(clauses) :
            \A p \in SeqRange(ClauseSurvivors(fs, clauses[i])) : p \in Yielded

\* A run over two clauses has ended: a/x is excluded by the but patterns
\* of the first clause, selected by the second, and in the result.
C25_Witness ==
    /\ EnumDone
    /\ Len(clauses) = 2
    /\ ExcludedBy(fs, clauses[1], <<"cur", "a", "x">>)
    /\ <<"cur", "a", "x">> \in SeqRange(ClauseSurvivors(fs, clauses[2]))
    /\ <<"cur", "a", "x">> \in Yielded


-----------------------------------------------------------------------------
(* Properties of saves.py: the filtered store, missing content *)

\* C26: store() with non-empty filters runs the full-replace step after
\* the per-path copy: when the scratch directory is not empty, the store
\* returns and the durable directory then equals the whole scratch
\* content, whatever the clauses select.
C26_FilteredStoreReplacesAll ==
    (/\ hist # <<>>
     /\ LastOp.op = "store" /\ LastOp.save_filters # <<>>
     /\ Scratch(LastOp.before) # <<>>)
        => /\ ~LastOp.raised
           /\ Durable(disk) = Scratch(LastOp.before)

\* C27: missing source content is a no-op and not an error: store() of an
\* empty scratch directory leaves the durable content of the game as it
\* was and does not raise; load() for a game with no durable content
\* leaves the scratch directory empty.
C27_MissingSourceIsNoOp ==
    /\ (hist # <<>> /\ LastOp.op = "store" /\ Scratch(LastOp.before) = <<>>)
          => /\ ~LastOp.raised
             /\ Durable(disk) = Durable(LastOp.before)
    /\ (hist # <<>> /\ LastOp.op = "load" /\ Durable(LastOp.before) = <<>>)
          => Scratch(disk) = <<>>


-----------------------------------------------------------------------------
(* Properties of the launch lifecycle: the lock and the sessions *)

\* A save load or store of session c is in progress.
SaveInProgress(c) == hpc[c] = "load" \/ wtpc[c] = "store"

\* C28: whenever the Session Lock is Idle, no game child process started
\* by the daemon is running and no save load or store is in progress; and
\* no release sets the lock to Idle while another session is running or
\* at its save.
C28_IdleMeansNothingRuns ==
    /\ [](~locked =>
            \A c \in Conns : proc[c] # "running" /\ ~SaveInProgress(c))
    /\ [][\A c \in Conns :
            releases'[c] # releases[c] =>
                \A d \in Conns \ {c} :
                    proc[d] # "running" /\ ~SaveInProgress(d)]_vars


\* Session c is the Active one: admitted and not yet released.
ActiveSession(c) ==
    /\ hpc[c] \notin {"idle", "test", "set"}
    /\ ~Rejected(c)
    /\ releases[c] = 0

\* C29: the kill action of the watchdog of one session never terminates
\* the child of another session, and the kill of a browser session, which
\* terminates every browser process, is invoked only while the watchdog's
\* own session is still the Active one.
C29_KillOnlyOwnChild ==
    [][\A c \in Conns :
          kills'[c] # kills[c] =>
              /\ \A d \in Conns \ {c} : proc'[d] = proc[d]
              /\ kind[c] = "web" => (ActiveSession(c) /\ locked)]_vars


-----------------------------------------------------------------------------
(* Properties of saves.py: the per-path copy *)

\* The files of the scratch directory, by relative path, that the clauses
\* exclude: a candidate of a clause matching one of its but patterns, and
\* not in the result of enumerate.
ExcludedFiles(t, save_filters) ==
    {r \in DOMAIN Scratch(t) :
        /\ Scratch(t)[r].kind = "file"
        /\ r \notin Covered(t, save_filters)
        /\ \E i \in 1 .. Len(save_filters) :
              ExcludedBy(t, save_filters[i], CURRENT_SAVE_LOCATION \o r)}

-----------------------------------------------------------------------------
(* Properties of the hotkey watchdog: termination *)

\* The watchdog thread of c has ended.
WdEnded(c) == wdpc[c] = "done"

\* C31: every watchdog thread terminates.  Once the child of its session
\* has ended, the test at the top of the loop ends the thread, and a pass
\* of the loop body under way is the last one; after invoking the kill
\* action the thread has ended; a thread that has ended takes no further
\* step; and under fair scheduling the thread of a session whose child
\* has ended does end.
C31_WatchdogTerminates ==
    /\ [](\A c \in Conns : kills[c] >= 1 => WdEnded(c))
    /\ [][\A c \in Conns :
            /\ (wdpc[c] = "check" /\ proc[c] # "running" /\ wdpc'[c] # "check")
                  => WdEnded(c)'
            /\ (wdpc[c] = "tick" /\ proc[c] # "running" /\ wdpc'[c] # "tick")
                  => (wdpc'[c] \in {"check", "done"} /\ proc'[c] # "running")
            /\ WdEnded(c)
                  => (WdEnded(c)' /\ pads'[c] = pads[c] /\ kills'[c] = kills[c])]_vars
    /\ \A c \in {1} : (ChildEnded(c) /\ wdpc[c] # "off") ~> WdEnded(c)

\* The child exited by itself while the watchdog was counting a hold, and
\* the watchdog has ended without a kill.
C31_Witness ==
    /\ proc[1] = "exited"
    /\ WdEnded(1)
    /\ kills[1] = 0
    /\ \E i \in DOMAIN padName : held[1][i] >= 1

=============================================================================
